---- MODULE Spec2Model ----
(***************************************************************************)
(* Hash router, blog filter and contact form of the Dr. Charles Brandon    *)
(* website                                                                 *)
(* (src/dr_charles_brandon_private_dentistry_website_react.jsx).           *)
(*                                                                         *)
(* JavaScript strings are modelled as sequences of UTF-16 code units, each *)
(* code unit written as a one-character TLA+ string ("EMDASH" stands for   *)
(* U+2014, the only non-ASCII code unit of the post texts).  Arrays are    *)
(* sequences; an array of post objects is a sequence of object ids, the id *)
(* of a post being its position in the item table.                         *)
(***************************************************************************)
EXTENDS Integers, Sequences, FiniteSets, TLC

VARIABLES
    tokenParts,   \* how the routed token was put together (router harness)
    locHash,      \* window.location.hash
    hash,         \* useHashRoute: the hash React state, RouteView prop
    pending,      \* hashchange events queued and not yet handled
    view,         \* the element RouteView returned: [kind, slug]
    items,        \* the post objects (fields of each element of BLOG_POSTS)
    posts,        \* the BLOG_POSTS array: object ids in array order
    q,            \* Blog: the q state
    tag,          \* Blog: the tag state
    filtered,     \* Blog: the memoised filtered array (object ids)
    filteredRef,  \* identity of the array object held by filtered
    form,         \* Contact: the form state [name, email, phone, message]
    submitted,    \* Contact: the submitted state
    topic,        \* Contact: the value of the (uncontrolled) topic select
    lastRun,      \* the handler that ran last: [event, handoffs], handoffs
                  \* the values it assigned to window.location.href
    scrollY,      \* window.scrollY: 0 at the top of the page
    menuOpen,     \* Navbar: the open state of the mobile menu
    innerWidth    \* window.innerWidth

vars == <<tokenParts, locHash, hash, pending, view, items, posts, q, tag,
          filtered, filteredRef, form, submitted, topic, lastRun, scrollY,
          menuOpen, innerWidth>>

\* The state of the router and of Blog.
blogVars == <<tokenParts, locHash, hash, pending, view, items, posts, q, tag,
              filtered, filteredRef>>

\* The state of Contact.
contactVars == <<form, submitted, topic>>

\* The state of the window and of Navbar.
shellVars == <<scrollY, menuOpen, innerWidth>>

-----------------------------------------------------------------------------
(* Content                                                                 *)

\* The default route token "#/".
ROOT_HASH ==
    <<"#","/">>

LEAD_MARK ==
    <<"#","/">>

PAGE_ABOUT ==
    <<"a","b","o","u","t">>

PAGE_CONTACT ==
    <<"c","o","n","t","a","c","t">>

PAGE_BLOG ==
    <<"b","l","o","g">>

\* The tag selector sentinel "all".
ALL ==
    <<"a","l","l">>

POST_SMILE_DESIGN ==
    [slug |->
        <<"s","m","i","l","e","-","d","e","s","i","g","n","-","f","i","r","s","t","-","p","r","i",
        "n","c","i","p","l","e","s">>,
     title |->
        <<"S","m","i","l","e"," ","D","e","s","i","g","n",":"," ","F","i","r","s","t"," ","P","r",
        "i","n","c","i","p","l","e","s"," ","f","o","r"," ","N","a","t","u","r","a","l"," ","R",
        "e","s","u","l","t","s">>,
     date |->
        <<"2","0","2","5","-","1","1","-","1","8">>,
     readTime |->
        <<"5"," ","m","i","n">>,
     excerpt |->
        <<"H","o","w"," ","w","e"," ","a","l","i","g","n"," ","f","a","c","i","a","l"," ","a","e",
        "s","t","h","e","t","i","c","s",","," ","t","o","o","t","h"," ","p","r","o","p","o","r",
        "t","i","o","n","s",","," ","a","n","d"," ","f","u","n","c","t","i","o","n","EMDASH",
        "s","o"," ","y","o","u","r"," ","r","e","s","u","l","t"," ","l","o","o","k","s"," ","e",
        "f","f","o","r","t","l","e","s","s"," ","a","n","d"," ","l","a","s","t","s",".">>,
     tags |-> <<
        <<"S","m","i","l","e"," ","D","e","s","i","g","n">>,
        <<"C","o","s","m","e","t","i","c">>>>,
     content |-> <<
        <<"G","r","e","a","t"," ","c","o","s","m","e","t","i","c"," ","d","e","n","t","i","s","t",
        "r","y"," ","s","t","a","r","t","s"," ","w","i","t","h"," ","r","e","s","t","r","a","i",
        "n","t","."," ","T","h","e"," ","g","o","a","l"," ","i","s"," ","n","o","t"," ","a"," ",
        "n","e","w"," ","s","m","i","l","e","EMDASH","i","t"," ","i","s"," ","*","y","o","u",
        "r","*"," ","s","m","i","l","e",","," ","r","e","f","i","n","e","d",".">>,
        <<"A"," ","r","o","b","u","s","t"," ","p","l","a","n"," ","c","o","n","s","i","d","e","r",
        "s"," ","f","a","c","i","a","l"," ","m","i","d","l","i","n","e",","," ","l","i","p"," ",
        "d","y","n","a","m","i","c","s",","," ","t","o","o","t","h"," ","d","i","s","p","l","a",
        "y"," ","a","t"," ","r","e","s","t",","," ","a","n","d"," ","o","c","c","l","u","s","a",
        "l"," ","f","u","n","c","t","i","o","n","."," ","T","h","e"," ","a","e","s","t","h","e",
        "t","i","c"," ","l","a","y","e","r"," ","i","s"," ","b","u","i","l","t"," ","o","n"," ",
        "a"," ","s","t","a","b","l","e"," ","f","o","u","n","d","a","t","i","o","n",".">>,
        <<"P","h","o","t","o","g","r","a","p","h","y"," ","a","n","d"," ","d","i","g","i","t","a",
        "l"," ","p","l","a","n","n","i","n","g"," ","h","e","l","p"," ","r","e","m","o","v","e",
        " ","g","u","e","s","s","w","o","r","k",","," ","e","n","a","b","l","i","n","g"," ","y",
        "o","u"," ","t","o"," ","p","r","e","v","i","e","w"," ","d","i","r","e","c","t","i","o",
        "n"," ","a","n","d"," ","m","a","k","e"," ","i","n","f","o","r","m","e","d"," ","d","e",
        "c","i","s","i","o","n","s"," ","b","e","f","o","r","e"," ","a","n","y"," ","i","r","r",
        "e","v","e","r","s","i","b","l","e"," ","s","t","e","p",".">>,
        <<"C","o","n","s","e","r","v","a","t","i","v","e"," ","o","p","t","i","o","n","s"," ","a",
        "r","e"," ","p","r","i","o","r","i","t","i","z","e","d",":"," ","a","l","i","g","n","m",
        "e","n","t"," ","+"," ","w","h","i","t","e","n","i","n","g"," ","+"," ","b","o","n","d",
        "i","n","g"," ","c","a","n"," ","o","f","t","e","n"," ","d","e","l","i","v","e","r"," ",
        "d","r","a","m","a","t","i","c"," ","c","h","a","n","g","e"," ","w","h","i","l","e"," ",
        "p","r","e","s","e","r","v","i","n","g"," ","t","o","o","t","h"," ","s","t","r","u","c",
        "t","u","r","e",".">>>>]

POST_BONDING_AFTERCARE ==
    [slug |->
        <<"c","o","m","p","o","s","i","t","e","-","b","o","n","d","i","n","g","-","a","f","t","e",
        "r","c","a","r","e">>,
     title |->
        <<"C","o","m","p","o","s","i","t","e"," ","B","o","n","d","i","n","g"," ","A","f","t","e",
        "r","c","a","r","e",":"," ","K","e","e","p","i","n","g"," ","Y","o","u","r"," ","F","i",
        "n","i","s","h"," ","B","r","i","g","h","t">>,
     date |->
        <<"2","0","2","5","-","1","0","-","0","2">>,
     readTime |->
        <<"4"," ","m","i","n">>,
     excerpt |->
        <<"S","m","a","l","l"," ","h","a","b","i","t","s"," ","p","r","o","t","e","c","t"," ","y",
        "o","u","r"," ","i","n","v","e","s","t","m","e","n","t","EMDASH","s","i","m","p","l",
        "e"," ","r","o","u","t","i","n","e","s"," ","t","h","a","t"," ","k","e","e","p"," ","b",
        "o","n","d","i","n","g"," ","s","m","o","o","t","h",","," ","g","l","o","s","s","y",",",
        " ","a","n","d"," ","s","t","a","i","n","-","r","e","s","i","s","t","a","n","t",".">>,
     tags |-> <<
        <<"B","o","n","d","i","n","g">>,
        <<"A","f","t","e","r","c","a","r","e">>>>,
     content |-> <<
        <<"C","o","m","p","o","s","i","t","e"," ","b","o","n","d","i","n","g"," ","i","s"," ","b",
        "o","t","h"," ","a","r","t"," ","a","n","d"," ","m","a","t","e","r","i","a","l"," ","s",
        "c","i","e","n","c","e","."," ","W","i","t","h"," ","t","h","e"," ","r","i","g","h","t",
        " ","m","a","i","n","t","e","n","a","n","c","e",","," ","t","h","e"," ","s","u","r","f",
        "a","c","e"," ","c","a","n"," ","s","t","a","y"," ","g","l","o","s","s","y"," ","f","o",
        "r"," ","y","e","a","r","s",".">>,
        <<"U","s","e"," ","a"," ","s","o","f","t"," ","b","r","u","s","h",","," ","a","v","o","i",
        "d"," ","a","b","r","a","s","i","v","e"," ","w","h","i","t","e","n","i","n","g"," ","t",
        "o","o","t","h","p","a","s","t","e",","," ","a","n","d"," ","c","o","n","s","i","d","e",
        "r"," ","a"," ","n","i","g","h","t"," ","g","u","a","r","d"," ","i","f"," ","y","o","u",
        " ","c","l","e","n","c","h"," ","o","r"," ","g","r","i","n","d",".">>,
        <<"R","e","g","u","l","a","r"," ","h","y","g","i","e","n","e"," ","a","p","p","o","i","n",
        "t","m","e","n","t","s"," ","r","e","d","u","c","e"," ","s","t","a","i","n","i","n","g",
        " ","a","n","d"," ","k","e","e","p"," ","m","a","r","g","i","n","s"," ","c","l","e","a",
        "n",","," ","w","h","i","c","h"," ","i","s"," ","c","r","i","t","i","c","a","l"," ","f",
        "o","r"," ","l","o","n","g","-","t","e","r","m"," ","a","e","s","t","h","e","t","i","c",
        "s",".">>,
        <<"I","f"," ","y","o","u"," ","n","o","t","i","c","e"," ","d","u","l","l","n","e","s","s",
        ","," ","c","h","i","p","s",","," ","o","r"," ","s","t","a","i","n","i","n","g",","," ",
        "s","m","a","l","l"," ","r","e","f","i","n","e","m","e","n","t","s"," ","c","a","n"," ",
        "o","f","t","e","n"," ","r","e","s","t","o","r","e"," ","t","h","e"," ","f","i","n","i",
        "s","h"," ","w","i","t","h","o","u","t"," ","m","a","j","o","r"," ","w","o","r","k",".">>>>]

POST_CONSERVATIVE_MAKEOVER ==
    [slug |->
        <<"a","l","i","g","n","m","e","n","t","-","w","h","i","t","e","n","i","n","g","-","b","o",
        "n","d","i","n","g","-","p","a","t","h","w","a","y">>,
     title |->
        <<"A"," ","C","o","n","s","e","r","v","a","t","i","v","e"," ","M","a","k","e","o","v","e",
        "r",":"," ","A","l","i","g","n","m","e","n","t",","," ","W","h","i","t","e","n","i","n",
        "g",","," ","t","h","e","n"," ","B","o","n","d","i","n","g">>,
     date |->
        <<"2","0","2","5","-","0","8","-","2","6">>,
     readTime |->
        <<"6"," ","m","i","n">>,
     excerpt |->
        <<"W","h","y"," ","s","e","q","u","e","n","c","i","n","g"," ","m","a","t","t","e","r","s",
        "EMDASH","u","s","i","n","g"," ","o","r","t","h","o","d","o","n","t","i","c","s"," ",
        "a","n","d"," ","w","h","i","t","e","n","i","n","g"," ","t","o"," ","m","i","n","i","m",
        "i","z","e"," ","r","e","s","t","o","r","a","t","i","o","n"," ","s","i","z","e"," ","a",
        "n","d"," ","m","a","x","i","m","i","z","e"," ","l","o","n","g","e","v","i","t","y",".">>,
     tags |-> <<
        <<"O","r","t","h","o","d","o","n","t","i","c","s">>,
        <<"W","h","i","t","e","n","i","n","g">>,
        <<"P","l","a","n","n","i","n","g">>>>,
     content |-> <<
        <<"S","e","q","u","e","n","c","i","n","g"," ","i","s"," ","a"," ","c","o","n","v","e","r",
        "s","i","o","n"," ","o","f"," ","c","o","m","p","l","e","x","i","t","y"," ","i","n","t",
        "o"," ","c","l","a","r","i","t","y","."," ","W","e"," ","s","t","a","r","t"," ","w","i",
        "t","h"," ","t","o","o","t","h"," ","p","o","s","i","t","i","o","n",","," ","t","h","e",
        "n"," ","c","o","l","o","r",","," ","t","h","e","n"," ","s","h","a","p","e",".">>,
        <<"B","y"," ","a","l","i","g","n","i","n","g"," ","f","i","r","s","t",","," ","b","o","n",
        "d","i","n","g"," ","c","a","n"," ","b","e"," ","t","h","i","n","n","e","r"," ","a","n",
        "d"," ","m","o","r","e"," ","d","u","r","a","b","l","e","."," ","W","h","i","t","e","n",
        "i","n","g"," ","e","s","t","a","b","l","i","s","h","e","s"," ","a"," ","s","t","a","b",
        "l","e"," ","s","h","a","d","e",","," ","s","o"," ","r","e","s","t","o","r","a","t","i",
        "o","n","s"," ","m","a","t","c","h"," ","a","n","d"," ","b","l","e","n","d",".">>,
        <<"T","h","e"," ","r","e","s","u","l","t"," ","i","s"," ","t","y","p","i","c","a","l","l",
        "y"," ","m","o","r","e"," ","n","a","t","u","r","a","l"," ","a","n","d"," ","m","o","r",
        "e"," ","c","o","n","s","e","r","v","a","t","i","v","e"," ","t","h","a","n"," ","j","u",
        "m","p","i","n","g"," ","s","t","r","a","i","g","h","t"," ","t","o"," ","l","a","r","g",
        "e","r"," ","r","e","s","t","o","r","a","t","i","o","n","s",".">>,
        <<"A"," ","w","e","l","l","-","p","l","a","n","n","e","d"," ","p","a","t","h","w","a","y",
        " ","i","s"," ","o","f","t","e","n"," ","f","a","s","t","e","r"," ","t","h","a","n"," ",
        "a"," ","r","e","a","c","t","i","v","e"," ","o","n","e","EMDASH","b","e","c","a","u",
        "s","e"," ","i","t"," ","r","e","d","u","c","e","s"," ","r","e","w","o","r","k"," ","a",
        "n","d"," ","c","o","m","p","r","o","m","i","s","e","s",".">>>>]

BLOG_POSTS ==
    <<POST_SMILE_DESIGN, POST_BONDING_AFTERCARE, POST_CONSERVATIVE_MAKEOVER>>

-----------------------------------------------------------------------------
(* JavaScript string primitives                                            *)

\* The printable ASCII code units in code order, U+0020 .. U+007E ("GRAVE"
\* stands for U+0060).
ASCII ==
    <<" ","!","\"","#","$","%","&","'","(",")","*","+",",","-",".","/",
      "0","1","2","3","4","5","6","7","8","9",":",";","<","=",">","?",
      "@","A","B","C","D","E","F","G","H","I","J","K","L","M","N","O",
      "P","Q","R","S","T","U","V","W","X","Y","Z","[","\\","]","^","_",
      "GRAVE","a","b","c","d","e","f","g","h","i","j","k","l","m","n","o",
      "p","q","r","s","t","u","v","w","x","y","z","{","|","}","~">>

\* White space removed by String.prototype.trim.
WhiteSpace == {" ", "\t", "\n", "\r", "\f"}

\* The code unit value of c.
CodeTable ==
    [c \in {ASCII[i] : i \in 1..Len(ASCII)} |->
        31 + (CHOOSE i \in 1..Len(ASCII) : ASCII[i] = c)]

CodeUnit(c) ==
    IF c \in DOMAIN CodeTable THEN CodeTable[c]
    ELSE IF c = "\t" THEN 9
    ELSE IF c = "\n" THEN 10
    ELSE IF c = "\f" THEN 12
    ELSE IF c = "\r" THEN 13
    ELSE 8212

\* String.prototype.toLowerCase on one code unit.
LowerTable ==
    [c \in {ASCII[i] : i \in 34..59} |->
        ASCII[32 + (CHOOSE i \in 34..59 : ASCII[i] = c)]]

ToLowerUnit(c) == IF c \in DOMAIN LowerTable THEN LowerTable[c] ELSE c

\* String.prototype.toLowerCase.
ToLowerCase(s) == [i \in 1..Len(s) |-> ToLowerUnit(s[i])]

\* String.prototype.trim.
RECURSIVE TrimStart(_)
TrimStart(s) ==
    IF s # <<>> /\ Head(s) \in WhiteSpace THEN TrimStart(Tail(s)) ELSE s

RECURSIVE TrimEnd(_)
TrimEnd(s) ==
    IF s # <<>> /\ s[Len(s)] \in WhiteSpace
    THEN TrimEnd(SubSeq(s, 1, Len(s) - 1))
    ELSE s

Trim(s) == TrimEnd(TrimStart(s))

\* String.prototype.includes: sub occurs at one of the places where its
\* first code unit does.
Includes(s, sub) ==
    LET starts == {i \in 1..(Len(s) - Len(sub) + 1) : Len(sub) = 0 \/ s[i] = sub[1]}
    IN  \E i \in starts : SubSeq(s, i, i + Len(sub) - 1) = sub

\* The relational operator a < b on two strings: code unit order, a proper
\* prefix being smaller.
RECURSIVE StringLess(_, _)
StringLess(a, b) ==
    IF b = <<>> THEN FALSE
    ELSE IF a = <<>> THEN TRUE
    ELSE IF Head(a) = Head(b) THEN StringLess(Tail(a), Tail(b))
    ELSE CodeUnit(Head(a)) < CodeUnit(Head(b))

\* s.replace(/^#\//, ""): one leading "#/" is removed, if there is one.
StripLead(s) ==
    IF Len(s) >= 2 /\ SubSeq(s, 1, 2) = LEAD_MARK
    THEN SubSeq(s, 3, Len(s))
    ELSE s

\* s.split("/"): the pieces between the separators, empty pieces kept.
Split(s) ==
    LET seps == {i \in 1..Len(s) : s[i] = "/"}
        n == Cardinality(seps)
        Sep(k) ==
            IF k = 0 THEN 0
            ELSE IF k = n + 1 THEN Len(s) + 1
            ELSE CHOOSE p \in seps : Cardinality({x \in seps : x < p}) = k - 1
    IN  [k \in 1..(n + 1) |-> SubSeq(s, Sep(k - 1) + 1, Sep(k) - 1)]

\* Array.prototype.filter(Boolean) on strings: the empty string is falsy.
IsTruthy(s) == s # <<>>

\* Variant: the empty pieces are kept.
FilterBoolean_KeepEmpty(parts) == parts

FilterBoolean(parts) == SelectSeq(parts, IsTruthy)

\* x || d for a string x.
OrElse(x, d) == IF IsTruthy(x) THEN x ELSE d

-----------------------------------------------------------------------------
(* Router                                                                  *)

NoSlug == <<>>

HomeView == [kind |-> "Home", slug |-> NoSlug]
AboutView == [kind |-> "About", slug |-> NoSlug]
ContactView == [kind |-> "Contact", slug |-> NoSlug]
BlogView == [kind |-> "Blog", slug |-> NoSlug]
BlogPostView(s) == [kind |-> "BlogPost", slug |-> s]

\* Nothing rendered yet (router harness only).
Unrendered == [kind |-> "Unrendered", slug |-> NoSlug]

\* const parts = (hash || "#/").replace(/^#\//, "").split("/").filter(Boolean)
RouteParts(h) == FilterBoolean(Split(StripLead(OrElse(h, ROOT_HASH))))

\* Variant: the post id is taken from the last segment.
RouteDispatch_LastSegment(parts) ==
    LET page == IF Len(parts) >= 1 THEN parts[1] ELSE <<>>
    IN  IF page = PAGE_ABOUT THEN AboutView
        ELSE IF page = PAGE_CONTACT THEN ContactView
        ELSE IF page = PAGE_BLOG /\ Len(parts) >= 2
             THEN BlogPostView(parts[Len(parts)])
        ELSE IF page = PAGE_BLOG THEN BlogView
        ELSE HomeView

\* Variant: the page name is matched without regard to case.
RouteDispatch_AnyCase(parts) ==
    LET page == IF Len(parts) >= 1 THEN ToLowerCase(parts[1]) ELSE <<>>
    IN  IF page = PAGE_ABOUT THEN AboutView
        ELSE IF page = PAGE_CONTACT THEN ContactView
        ELSE IF page = PAGE_BLOG /\ Len(parts) >= 2 THEN BlogPostView(parts[2])
        ELSE IF page = PAGE_BLOG THEN BlogView
        ELSE HomeView

\* The dispatch of RouteView on parts.
RouteDispatch(parts) ==
    LET page == IF Len(parts) >= 1 THEN parts[1] ELSE <<>>
    IN  IF page = PAGE_ABOUT THEN AboutView
        ELSE IF page = PAGE_CONTACT THEN ContactView
        ELSE IF page = PAGE_BLOG /\ Len(parts) >= 2 THEN BlogPostView(parts[2])
        ELSE IF page = PAGE_BLOG THEN BlogView
        ELSE HomeView

RouteView(h) == RouteDispatch(RouteParts(h))

-----------------------------------------------------------------------------
(* Contact: fixed texts                                                    *)

\* BRAND.email
BRAND_EMAIL ==
    <<"e","n","q","u","i","r","i","e","s","@","d","r","c","h","a","r","l","e","s","b","r","a",
    "n","d","o","n",".","c","o","m">>

\* The subject of the draft.
SUBJECT ==
    <<"P","r","i","v","a","t","e"," ","C","o","n","s","u","l","t","a","t","i","o","n"," ","R",
    "e","q","u","e","s","t">>

MAILTO_SCHEME ==
    <<"m","a","i","l","t","o",":">>

SUBJECT_KEY ==
    <<"?","s","u","b","j","e","c","t","=">>

BODY_KEY ==
    <<"&","b","o","d","y","=">>

\* The mark the topic handler looks for in the message.
TOPIC_MARK ==
    <<"T","o","p","i","c",":">>

\* The options of the topic select; the first is its defaultValue.
TOPIC_SMILE ==
    <<"S","m","i","l","e"," ","d","e","s","i","g","n"," ","c","o","n","s","u","l","t","a","t",
    "i","o","n">>

TOPIC_BONDING ==
    <<"C","o","m","p","o","s","i","t","e"," ","b","o","n","d","i","n","g"," ","/"," ","v","e",
    "n","e","e","r","s">>

TOPIC_ALIGNMENT ==
    <<"A","l","i","g","n","m","e","n","t"," ","/"," ","w","h","i","t","e","n","i","n","g">>

TOPIC_GENERAL ==
    <<"G","e","n","e","r","a","l"," ","e","n","q","u","i","r","y">>

\* The pieces of the body template.
LABEL_NAME ==
    <<"N","a","m","e",":"," ">>

LABEL_EMAIL ==
    <<"\n","E","m","a","i","l",":"," ">>

LABEL_PHONE ==
    <<"\n","P","h","o","n","e",":"," ">>

LABEL_MESSAGE ==
    <<"\n","\n","M","e","s","s","a","g","e",":","\n">>

-----------------------------------------------------------------------------
(* Content filter (Blog)                                                   *)

\* Array.prototype.includes / some over a sequence.
Elements(arr) == {arr[i] : i \in 1..Len(arr)}

\* Variant: the query is not trimmed.
NormalizeQuery_NoTrim(qs) == ToLowerCase(qs)

\* const query = q.trim().toLowerCase()
NormalizeQuery(qs) == ToLowerCase(Trim(qs))

\* Variant: the body paragraphs are searched too.
HitQ_WithBody(p, query) ==
    \/ ~IsTruthy(query)
    \/ Includes(ToLowerCase(p.title), query)
    \/ Includes(ToLowerCase(p.excerpt), query)
    \/ \E t \in Elements(p.tags) : Includes(ToLowerCase(t), query)
    \/ \E c \in Elements(p.content) : Includes(ToLowerCase(c), query)

\* Variant: the excerpt is not searched.
HitQ_NoExcerpt(p, query) ==
    \/ ~IsTruthy(query)
    \/ Includes(ToLowerCase(p.title), query)
    \/ \E t \in Elements(p.tags) : Includes(ToLowerCase(t), query)

\* hitQ of the filter callback, for the post object p.
HitQ(p, query) ==
    \/ ~IsTruthy(query)
    \/ Includes(ToLowerCase(p.title), query)
    \/ Includes(ToLowerCase(p.excerpt), query)
    \/ \E t \in Elements(p.tags) : Includes(ToLowerCase(t), query)

\* Variant: the sentinel "all" is treated as a tag.
HitT_NoSentinel(p, tg) == tg \in Elements(p.tags)

\* Variant: the selector is compared without regard to case.
HitT_AnyCase(p, tg) ==
    tg = ALL \/ \E t \in Elements(p.tags) : ToLowerCase(t) = ToLowerCase(tg)

\* hitT of the filter callback.
HitT(p, tg) == tg = ALL \/ tg \in Elements(p.tags)

\* Variant: the callback runs over the whole item table, whatever array it
\* is given.
ArrayFilter_FromSource(objs, arr, qs, tg) ==
    LET query == NormalizeQuery(qs)
        Keep(id) == HitQ(objs[id], query) /\ HitT(objs[id], tg)
    IN  SelectSeq([i \in 1..Len(objs) |-> i], Keep)

\* BLOG_POSTS.filter(...): a new array holding the ids that pass, in the
\* order of the source array.
ArrayFilter(objs, arr, qs, tg) ==
    LET query == NormalizeQuery(qs)
        Keep(id) == HitQ(objs[id], query) /\ HitT(objs[id], tg)
    IN  SelectSeq(arr, Keep)

\* Variant: the comparison is the other way round.
SortCompare_Ascending(a, b) == IF StringLess(b.date, a.date) THEN 1 ELSE -1

\* The comparator handed to sort: (a, b) => (a.date < b.date ? 1 : -1).
SortCompare(a, b) == IF StringLess(a.date, b.date) THEN 1 ELSE -1

\* The arrangements of the elements of arr.
Arrangements(arr) ==
    LET n == Len(arr)
        Bij == {f \in [1..n -> 1..n] : \A i, j \in 1..n : i # j => f[i] # f[j]}
    IN  {[i \in 1..n |-> arr[f[i]]] : f \in Bij}

\* Array.prototype.sort with SortCompare.  The comparator never returns 0, so
\* for two elements of equal date it answers "a first" whichever way it is
\* asked and the algorithm of the engine decides their order (run detection and
\* binary insertion reverse them, a merge keeps them): every arrangement that
\* no pair of answers of the comparator contradicts is an outcome.
ArraySort(objs, arr) ==
    {s \in Arrangements(arr) :
        \A i, j \in 1..Len(s) :
            i < j => \/ SortCompare(objs[s[i]], objs[s[j]]) < 0
                     \/ SortCompare(objs[s[j]], objs[s[i]]) > 0}

\* Array identities.  BLOG_POSTS is one array object; every filter call
\* allocates another.
NoRef == 0
PostsRef == 1
ResultRefs == {2, 3}

\* The array object filter() allocates while the arrays in live are held.
NewArrayRef(live) == CHOOSE r \in ResultRefs \ live : \A o \in ResultRefs \ live : r <= o

\* Variant: the callback works on BLOG_POSTS itself, which ends up holding
\* the result.
SourceAfterSort_InPlace(arr, sorted) == sorted

\* BLOG_POSTS after the memo callback ran: filter() copied, so the in-place
\* sort worked on the copy.
SourceAfterSort(arr, sorted) == arr

\* The memo callback of filtered: its outcomes, each the returned array,
\* its identity, and the source array afterwards.
FilterSort(objs, arr, qs, tg, held) ==
    {[result |-> s,
      ref |-> NewArrayRef({PostsRef, held}),
      source |-> SourceAfterSort(arr, s)] :
        s \in ArraySort(objs, ArrayFilter(objs, arr, qs, tg))}

\* Variant: the select offers a tag no post has.
TagSet_WithStray(objs, arr) ==
    {<<"N", "e", "w", "s">>} \cup UNION {Elements(objs[id].tags) : id \in Elements(arr)}

\* The tags offered by the tag select besides "all" (the Set built in the
\* tags memo).
TagSet(objs, arr) == UNION {Elements(objs[id].tags) : id \in Elements(arr)}


-----------------------------------------------------------------------------
(* What Blog renders from its state                                        *)

\* Variant: the note is shown for a list of one card too.
NoMatchShown_UpToOne(arr) == Len(arr) <= 1

\* {filtered.length === 0 ? <GlassCard>No posts match your search.</GlassCard>
\*  : null}
NoMatchShown(arr) == Len(arr) = 0

\* String.prototype.localeCompare with no locale given: the collation of the
\* host.  Modelled is the root collation (CLDR), which the English locales
\* use unchanged: white space, then punctuation and symbols, then digits,
\* then letters; a letter and its capital share a primary weight.
CollationOrder ==
    <<"\t", "\n", "\f", "\r", " ",
      "_", "-", "EMDASH", ",", ";", ":", "!", "?", ".", "'", "\"", "(", ")",
      "[", "]", "{", "}", "@", "*", "/", "\\", "&", "#", "%", "GRAVE", "^",
      "+", "<", "=", ">", "|", "~", "$",
      "0", "1", "2", "3", "4", "5", "6", "7", "8", "9",
      "a", "b", "c", "d", "e", "f", "g", "h", "i", "j", "k", "l", "m",
      "n", "o", "p", "q", "r", "s", "t", "u", "v", "w", "x", "y", "z">>

PrimaryTable ==
    [c \in {CollationOrder[i] : i \in 1..Len(CollationOrder)} |->
        CHOOSE i \in 1..Len(CollationOrder) : CollationOrder[i] = c]

PrimaryWeight(c) == PrimaryTable[ToLowerUnit(c)]

\* a.localeCompare(b): negative, zero or positive.  Primary weights decide,
\* read from the left; between strings equal in them, the first place where
\* the case differs decides, the small letter first.
LocaleCompare(a, b) ==
    LET m == IF Len(a) < Len(b) THEN Len(a) ELSE Len(b)
        P == {i \in 1..m : PrimaryWeight(a[i]) # PrimaryWeight(b[i])}
        T == {i \in 1..m : a[i] # b[i]}
        First(S) == CHOOSE i \in S : \A j \in S : i <= j
    IN  IF P # {}
        THEN IF PrimaryWeight(a[First(P)]) < PrimaryWeight(b[First(P)])
             THEN -1 ELSE 1
        ELSE IF Len(a) # Len(b) THEN (IF Len(a) < Len(b) THEN -1 ELSE 1)
        ELSE IF T = {} THEN 0
        ELSE IF ToLowerUnit(a[First(T)]) = a[First(T)] THEN -1 ELSE 1

\* Array.from(t).sort((a, b) => a.localeCompare(b)) for a Set t: the
\* comparator is a total order on distinct strings, so the sorted array is
\* the one that puts each string behind the strings that compare below it.
SortedTags(S) ==
    [k \in 1..Cardinality(S) |->
        CHOOSE t \in S :
            Cardinality({u \in S : LocaleCompare(u, t) < 0}) = k - 1]

\* Variant: "all" is put into the set and sorted with the tags.
Tags_AllSorted(objs, arr) == SortedTags({ALL} \cup TagSet(objs, arr))

\* The tags memo: ["all", ...Array.from(t).sort(...)], t the Set of the tags
\* of all posts.
Tags(objs, arr) == <<ALL>> \o SortedTags(TagSet(objs, arr))

-----------------------------------------------------------------------------
(* Inputs                                                                  *)

\* Longest run of hashchange events left unhandled.
MaxPending == 1

\* Longest item list handed to the filter.
MaxItems == 2

\* Most segments of a token put together for the router.
MaxSegs == 3

SEG_UPPER_ABOUT ==
    <<"A","b","o","u","t">>

SEG_X ==
    <<"x">>

HASH_ONLY ==
    <<"#">>

TOKEN_ABOUT ==
    <<"#","/","a","b","o","u","t">>

TOKEN_CONTACT ==
    <<"#","/","c","o","n","t","a","c","t">>

TOKEN_BLOG ==
    <<"#","/","b","l","o","g">>

TOKEN_BLOG_SLASH ==
    <<"#","/","b","l","o","g","/">>

TOKEN_POST_SMILE ==
    <<"#","/","b","l","o","g","/","s","m","i","l","e","-","d","e","s","i","g","n","-","f","i",
    "r","s","t","-","p","r","i","n","c","i","p","l","e","s">>

TOKEN_POST_MISSING ==
    <<"#","/","b","l","o","g","/","d","o","e","s","-","n","o","t","-","e","x","i","s","t">>

TOKEN_UNKNOWN ==
    <<"#","/","u","n","k","n","o","w","n">>

TOKEN_UPPER_ABOUT ==
    <<"#","/","A","b","o","u","t">>

QUERY_BONDING ==
    <<"b","o","n","d","i","n","g">>

QUERY_BONDING_RAW ==
    <<" "," ","B","O","N","D","I","N","G"," ">>

QUERY_NO_MATCH ==
    <<"z","z","z","-","n","o","-","m","a","t","c","h">>

QUERY_RESTRAINT ==
    <<"r","e","s","t","r","a","i","n","t">>

QUERY_WHIT ==
    <<"w","h","i","t">>

QUERY_BLANK ==
    <<" "," ">>

TAG_WHITENING_LOWER ==
    <<"w","h","i","t","e","n","i","n","g">>

TAG_WHIT ==
    <<"W","h","i","t">>

SEG_SLUG_MISSING ==
    <<"d","o","e","s","-","n","o","t","-","e","x","i","s","t">>

SEG_SLUG_CASE ==
    <<"S","m","i","l","e","-","D","e","s","i","g","n","-","F","i","r","s","t","-","P","r","i",
    "n","c","i","p","l","e","s">>

SEG_SLUG_PREFIX ==
    <<"s","m","i","l","e","-","d","e","s","i","g","n">>
POOL_BONDING_CARE ==
    [slug |-> <<"a">>,
     title |-> <<"B","o","n","d","i","n","g"," ","c","a","r","e">>,
     date |-> <<"2","0","2","5","-","1","0","-","0","2">>,
     readTime |-> <<"1"," ","m","i","n">>,
     excerpt |-> <<"g","l","o","s","s">>,
     tags |-> <<<<"A","f","t","e","r","c","a","r","e">>>>,
     content |-> <<<<"w","h","i","t">>>>]

POOL_PLAN ==
    [slug |-> <<"b">>,
     title |-> <<"P","l","a","n">>,
     date |-> <<"2","0","2","5","-","1","0","-","0","2">>,
     readTime |-> <<"1"," ","m","i","n">>,
     excerpt |-> <<"T","h","i","n"," ","B","O","N","D","I","N","G">>,
     tags |-> <<<<"W","h","i","t","e","n","i","n","g">>, <<"a","f","t","e","r","c","a","r","e">>>>,
     content |-> <<<<"x">>>>]

POOL_ALIGN ==
    [slug |-> <<"c">>,
     title |-> <<"A","l","i","g","n">>,
     date |-> <<"2","0","2","5","-","0","8","-","2","6">>,
     readTime |-> <<"1"," ","m","i","n">>,
     excerpt |-> <<"c","o","l","o","r">>,
     tags |-> <<<<"C","o","s","m","e","t","i","c">>, <<"B","o","n","d","i","n","g">>>>,
     content |-> <<<<"r","e","s","t","r","a","i","n","t"," ","Z","Z","Z","-","n","o","-","m","a","t","c","h">>>>]

\* What the fields of the contact form can be given.
NAME_AL ==
    <<"A","l">>

NAME_ONE_PADDED ==
    <<" ","A"," ">>

EMAIL_OK ==
    <<"a","@","b",".","c">>

EMAIL_PADDED ==
    <<" ","a","@","b",".","c"," ">>

EMAIL_NO_DOT ==
    <<"a","@","b","c">>

EMAIL_NO_LOCAL ==
    <<"@","b",".","c">>

EMAIL_NO_HOST ==
    <<"a","@",".","c">>

EMAIL_NO_TLD ==
    <<"a","@","b",".">>

EMAIL_DOT_FIRST ==
    <<"a",".","b","@","c">>

PHONE_UK ==
    <<"+","4","4"," ","7">>

MESSAGE_TEN ==
    <<"W","h","i","t","e","n"," ","p","l","s">>

MESSAGE_NINE ==
    <<"W","h","i","t","e","n"," ","i","t">>

MESSAGE_EIGHT_PADDED ==
    <<" ","V","e","n","e","e","r","s","?","\n">>

-----------------------------------------------------------------------------
(* What BlogPost renders, and the links of the pages                       *)

\* What Array.prototype.find returns when no element passes (undefined).
NotFound == 0

\* Variant: slugs are compared without regard to case.
FindPost_AnyCase(objs, arr, slug) ==
    LET hits == {k \in 1..Len(arr) :
                    ToLowerCase(objs[arr[k]].slug) = ToLowerCase(slug)}
    IN  IF hits = {} THEN NotFound
        ELSE arr[CHOOSE k \in hits : \A j \in hits : k <= j]

\* const post = BLOG_POSTS.find((p) => p.slug === slug): the first element
\* whose slug is the string, or undefined.
FindPost(objs, arr, slug) ==
    LET hits == {k \in 1..Len(arr) : objs[arr[k]].slug = slug}
    IN  IF hits = {} THEN NotFound
        ELSE arr[CHOOSE k \in hits : \A j \in hits : k <= j]

\* The branch BlogPost takes: the card "Post not found", or the article.
PostState(objs, arr, slug) ==
    IF FindPost(objs, arr, slug) = NotFound THEN "PostNotFound" ELSE "Article"

\* Variant: the card links leave the "blog/" segment out.
PostHref_NoBlog(p) == LEAD_MARK \o p.slug

\* href={`#/blog/${p.slug}`} of a card of Blog.
PostHref(p) == LEAD_MARK \o PAGE_BLOG \o <<"/">> \o p.slug

\* Variant: the button of the not-found card leads home.
BlogPostLinks_Home(objs, arr, slug) ==
    IF FindPost(objs, arr, slug) = NotFound THEN {ROOT_HASH}
    ELSE {TOKEN_BLOG, TOKEN_CONTACT}

\* The in-site links BlogPost renders: "Back to Blog" on the not-found card;
\* "Back to blog" and "Book consultation" around the article.
BlogPostLinks(objs, arr, slug) ==
    IF FindPost(objs, arr, slug) = NotFound THEN {TOKEN_BLOG}
    ELSE {TOKEN_BLOG, TOKEN_CONTACT}

\* The in-site links of the page body RouteView returned (the mail, phone
\* and Instagram links leave the site and are left out).
PageLinks(v, objs, arr, shown) ==
    IF v.kind = "Home" THEN {TOKEN_CONTACT, TOKEN_ABOUT}
    ELSE IF v.kind = "About" THEN {TOKEN_CONTACT, TOKEN_BLOG}
    ELSE IF v.kind = "Blog"
        THEN {PostHref(objs[id]) : id \in Elements(shown)} \cup {TOKEN_CONTACT}
    ELSE IF v.kind = "BlogPost" THEN BlogPostLinks(objs, arr, v.slug)
    ELSE {}

-----------------------------------------------------------------------------
(* Contact: validity, the topic handler, the mail draft                    *)

TOPICS == <<TOPIC_SMILE, TOPIC_BONDING, TOPIC_ALIGNMENT, TOPIC_GENERAL>>

DEFAULT_TOPIC == TOPIC_SMILE

\* useState({ name: "", email: "", phone: "", message: "" })
EmptyForm == [name |-> <<>>, email |-> <<>>, phone |-> <<>>, message |-> <<>>]

\* The code units the dot of a regular expression does not match.
LineTerminators == {"\n", "\r"}

\* /.+@.+\..+/.test(s): somewhere in s an "@" with a character before it, a
\* later "." with at least one character between the two, and a character
\* after the "."; none of these characters a line terminator.
EmailShape(s) ==
    \E a \in 2..Len(s) : \E dot \in (a + 2)..(Len(s) - 1) :
        /\ s[a] = "@"
        /\ s[dot] = "."
        /\ s[a - 1] \notin LineTerminators
        /\ \A k \in (a + 1)..(dot - 1) : s[k] \notin LineTerminators
        /\ s[dot + 1] \notin LineTerminators

\* Variant: the fields are tested as typed.
IsValid_Untrimmed(f) ==
    /\ Len(f.name) >= 2
    /\ EmailShape(f.email)
    /\ Len(f.message) >= 10

\* const isValid = ...
IsValid(f) ==
    /\ Len(Trim(f.name)) >= 2
    /\ EmailShape(Trim(f.email))
    /\ Len(Trim(f.message)) >= 10

\* update(k, v): setForm((s) => ({ ...s, [k]: v }))
Update(f, k, v) == [f EXCEPT ![k] = v]

\* <button type="submit" disabled={!isValid}>
SubmitEnabled(f) == IsValid(f)

\* {submitted ? <Pill>Sent</Pill> : null}
SentShown(sub) == sub

\* `Topic: ${topic}\n\n`
TopicLine(t) == TOPIC_MARK \o <<" ">> \o t \o <<"\n", "\n">>

\* The places where /Topic:.*\n\n/ matches in msg, each with the end of the
\* match: "Topic:" at i, then the characters up to the first line
\* terminator, which has to be the first of two "\n".
TopicMatches(msg) ==
    {m \in (1..Len(msg)) \X (1..Len(msg)) :
        /\ m[1] + Len(TOPIC_MARK) - 1 <= Len(msg)
        /\ SubSeq(msg, m[1], m[1] + Len(TOPIC_MARK) - 1) = TOPIC_MARK
        /\ m[2] >= m[1] + Len(TOPIC_MARK) + 1
        /\ msg[m[2] - 1] = "\n"
        /\ msg[m[2]] = "\n"
        /\ \A k \in (m[1] + Len(TOPIC_MARK))..(m[2] - 2) :
               msg[k] \notin LineTerminators}

\* msg.replace(/Topic:.*\n\n/, `Topic: ${topic}\n\n`): the leftmost match is
\* replaced; without a match the string is returned as it is.
ReplaceTopic(msg, t) ==
    LET ms == TopicMatches(msg) IN
    IF ms = {} THEN msg
    ELSE LET m == CHOOSE m \in ms : \A n \in ms : m[1] <= n[1]
         IN  SubSeq(msg, 1, m[1] - 1) \o TopicLine(t)
                 \o SubSeq(msg, m[2] + 1, Len(msg))

\* The value onChange of the topic select gives to the message.
TopicMessage(msg, t) ==
    IF ~Includes(msg, TOPIC_MARK)
    THEN Trim(TopicLine(t) \o msg)
    ELSE ReplaceTopic(msg, t)

HexDigits ==
    <<"0", "1", "2", "3", "4", "5", "6", "7", "8", "9", "A", "B", "C", "D",
      "E", "F">>

\* "%XX" for the octet n.
PercentOctet(n) == <<"%", HexDigits[(n \div 16) + 1], HexDigits[(n % 16) + 1]>>

\* The code units encodeURIComponent leaves as they are: letters, digits
\* and - _ . ! ~ * ' ( )
Unreserved ==
    {ASCII[i] : i \in 1..Len(ASCII)} \
        {" ", "\"", "#", "$", "%", "&", "+", ",", "/", ":", ";", "<", "=",
         ">", "?", "@", "[", "\\", "]", "^", "GRAVE", "{", "|", "}"}

\* One code unit under encodeURIComponent: itself, or the octets of its
\* UTF-8 encoding, each as "%XX".
EncodeUnit(c) ==
    LET n == CodeUnit(c) IN
    IF c \in Unreserved THEN <<c>>
    ELSE IF n < 128 THEN PercentOctet(n)
    ELSE IF n < 2048
        THEN PercentOctet(192 + (n \div 64)) \o PercentOctet(128 + (n % 64))
    ELSE PercentOctet(224 + (n \div 4096))
             \o PercentOctet(128 + ((n \div 64) % 64))
             \o PercentOctet(128 + (n % 64))

\* The strings of a sequence joined, by halves.
RECURSIVE Concat(_)
Concat(ss) ==
    IF ss = <<>> THEN <<>>
    ELSE IF Len(ss) = 1 THEN ss[1]
    ELSE LET h == Len(ss) \div 2
         IN  Concat(SubSeq(ss, 1, h)) \o Concat(SubSeq(ss, h + 1, Len(ss)))

\* encodeURIComponent(s)
EncodeURIComponent(s) == Concat([i \in 1..Len(s) |-> EncodeUnit(s[i])])

\* Variant: the body leaves the phone out.
MailBody_NoPhone(f) ==
    LABEL_NAME \o f.name \o LABEL_EMAIL \o f.email
        \o LABEL_MESSAGE \o f.message

\* `Name: ${form.name}\nEmail: ${form.email}\nPhone: ${form.phone}\n\n
\*  Message:\n${form.message}`
MailBody(f) ==
    LABEL_NAME \o f.name \o LABEL_EMAIL \o f.email \o LABEL_PHONE \o f.phone
        \o LABEL_MESSAGE \o f.message

\* `mailto:${BRAND.email}?subject=${subject}&body=${body}`
MailtoHref(f) ==
    MAILTO_SCHEME \o BRAND_EMAIL \o SUBJECT_KEY \o EncodeURIComponent(SUBJECT)
        \o BODY_KEY \o EncodeURIComponent(MailBody(f))

\* Variant: onSubmit without the validity test.
SubmitOutcome_Unguarded(f, sub) ==
    [submitted |-> TRUE, handoffs |-> <<MailtoHref(f)>>]

\* onSubmit on the form f with the submitted state sub: the submitted state
\* afterwards and the values assigned to window.location.href, in order.
SubmitOutcome(f, sub) ==
    IF ~IsValid(f) THEN [submitted |-> sub, handoffs |-> <<>>]
    ELSE [submitted |-> TRUE, handoffs |-> <<MailtoHref(f)>>]

-----------------------------------------------------------------------------
(* The window, Navbar and Footer                                           *)

\* The hashes of NAV, in order: Home, About, Blog, Contact.
NAV == <<ROOT_HASH, TOKEN_ABOUT, TOKEN_BLOG, TOKEN_CONTACT>>

\* The md breakpoint: the desktop links are shown from this width on, the
\* menu button and the mobile menu below it; onResize closes the menu from
\* this width on.
WIDTH_MD == 768

WIDTH_PHONE == 390

WIDTH_DESKTOP == 1280

\* A link of the page: its href, whether its onClick is scrollToTop, and
\* whether its onClick is setOpen(false).
Link(h, top, closes) == [href |-> h, top |-> top, closes |-> closes]

\* The in-site links of Navbar: the brand link; from md on the NAV links and
\* "Book Consultation"; below md, with the menu open, the NAV links of the
\* menu and "Book".  None of them calls scrollToTop.
NavbarLinks(open, width) ==
    {Link(ROOT_HASH, FALSE, TRUE)}
        \cup (IF width >= WIDTH_MD
              THEN {Link(NAV[i], FALSE, FALSE) : i \in 1..Len(NAV)}
                       \cup {Link(TOKEN_CONTACT, FALSE, FALSE)}
              ELSE {})
        \cup (IF width < WIDTH_MD /\ open
              THEN {Link(NAV[i], FALSE, TRUE) : i \in 1..Len(NAV)}
                       \cup {Link(TOKEN_CONTACT, FALSE, FALSE)}
              ELSE {})

\* The links of Footer: the NAV links, each with onClick={scrollToTop}.
FooterLinks == {Link(NAV[i], TRUE, FALSE) : i \in 1..Len(NAV)}

\* The in-site links on the screen: Navbar, the page body (every one of its
\* links has onClick={scrollToTop}), Footer.
ScreenLinks(v, objs, arr, shown, open, width) ==
    NavbarLinks(open, width)
        \cup {Link(t, TRUE, FALSE) : t \in PageLinks(v, objs, arr, shown)}
        \cup FooterLinks

\* scrollToTop: window.scrollTo({ top: 0, behavior: "smooth" }); the offset
\* the scroll ends at.
ScrollToTop == 0

\* The offset after a page was replaced by another: the one before, or a
\* smaller one where the new page is shorter.
AfterRender(y) == {y, 0}

\* onResize of Navbar: if (window.innerWidth >= 768) setOpen(false).
OnResize(open, width) == IF width >= WIDTH_MD THEN FALSE ELSE open

\* The tokens the address bar and the links deliver: window.location.hash is
\* empty or starts with "#".
NavTokens ==
    {<<>>, ROOT_HASH, TOKEN_ABOUT, TOKEN_CONTACT, TOKEN_BLOG, TOKEN_BLOG_SLASH,
     TOKEN_POST_SMILE, TOKEN_POST_MISSING, TOKEN_UNKNOWN, TOKEN_UPPER_ABOUT}

\* What the search box can hold.
Queries ==
    {<<>>, QUERY_BONDING, QUERY_BONDING_RAW, QUERY_NO_MATCH, QUERY_RESTRAINT,
     QUERY_WHIT, QUERY_BLANK}

\* Router harness: a token is a lead followed by segments joined with "/".
Leads == {LEAD_MARK, <<>>, HASH_ONLY}

SegWords ==
    {<<>>, PAGE_ABOUT, PAGE_CONTACT, PAGE_BLOG, SEG_UPPER_ABOUT, SEG_X,
     POST_SMILE_DESIGN.slug, SEG_SLUG_MISSING, SEG_SLUG_CASE, SEG_SLUG_PREFIX}

SegLists == UNION {[1..n -> SegWords] : n \in 0..MaxSegs}

TokenShapes == [lead : Leads, segs : SegLists]

RECURSIVE Join(_)
Join(segs) ==
    IF segs = <<>> THEN <<>>
    ELSE IF Len(segs) = 1 THEN segs[1]
    ELSE segs[1] \o <<"/">> \o Join(Tail(segs))

TokenString(shape) == shape.lead \o Join(shape.segs)

NoShape == [lead |-> <<>>, segs |-> <<>>]

\* Filter harness: the shipped list, and item lists over a pool of short
\* posts; two of them share a date, one has "restraint" in its body only.
FilterPool == {POOL_BONDING_CARE, POOL_PLAN, POOL_ALIGN}

ItemLists == {BLOG_POSTS} \cup UNION {[1..n -> FilterPool] : n \in 0..MaxItems}

-----------------------------------------------------------------------------
(* State after construction                                                *)

\* The array BLOG_POSTS as ids of its objects, in source order.
SourceOrder(objs) == [i \in 1..Len(objs) |-> i]

\* The state of Blog when the component mounts: useState("") , useState("all"),
\* and the first run of the filtered memo.
BlogMounted(objs, arr) ==
    {[q |-> <<>>, tag |-> ALL, filtered |-> o.result, ref |-> o.ref,
      source |-> o.source] : o \in FilterSort(objs, arr, <<>>, ALL, NoRef)}

\* No Blog component is mounted.
BlogAbsent(arr) ==
    [q |-> <<>>, tag |-> ALL, filtered |-> <<>>, ref |-> NoRef, source |-> arr]

\* The Blog state that goes with the element v.
BlogFor(v, objs, arr) ==
    IF v.kind = "Blog" THEN BlogMounted(objs, arr) ELSE {BlogAbsent(arr)}

\* Variant: && written for ||.
ReadHash_And(loc) == IF IsTruthy(loc) THEN ROOT_HASH ELSE loc

\* The initialiser of useHashRoute and onHash: window.location.hash || "#/".
ReadHash(loc) == OrElse(loc, ROOT_HASH)

\* The mount effect of App: if (!window.location.hash) window.location.hash = "#/".
EnsureDefaultRoute(loc) == IF ~IsTruthy(loc) THEN ROOT_HASH ELSE loc

\* A handler other than onSubmit ran; it hands nothing to the host.
OtherRun == [event |-> "other", handoffs |-> <<>>]

\* onSubmit ran and assigned the values hs to window.location.href.
SubmitRun(hs) == [event |-> "submit", handoffs |-> hs]

\* The state of Contact when it mounts (and the values the variables are
\* given while no Contact is mounted).
ContactMounted ==
    /\ form = EmptyForm
    /\ submitted = FALSE
    /\ topic = DEFAULT_TOPIC

\* The window as the page is opened: at the top, the menu closed
\* (useState(false)), at desktop width.
WindowOpened ==
    /\ scrollY = 0
    /\ menuOpen = FALSE
    /\ innerWidth = WIDTH_DESKTOP

\* The page is opened at a URL whose fragment is h0.
Init ==
    \E h0 \in NavTokens :
        /\ tokenParts = NoShape
        /\ hash = ReadHash(h0)
        /\ locHash = EnsureDefaultRoute(h0)
        /\ pending = IF locHash # h0 THEN 1 ELSE 0
        /\ view = RouteView(hash)
        /\ items = BLOG_POSTS
        /\ \E b \in BlogFor(view, items, SourceOrder(items)) :
            /\ posts = b.source
            /\ q = b.q
            /\ tag = b.tag
            /\ filtered = b.filtered
            /\ filteredRef = b.ref
        /\ ContactMounted
        /\ lastRun = OtherRun
        /\ WindowOpened

-----------------------------------------------------------------------------
(* Events                                                                  *)

\* A link is followed or the address is edited: the fragment becomes t and
\* the host queues a hashchange event.
Navigate(t) ==
    /\ t # locHash
    /\ pending < MaxPending
    /\ locHash' = t
    /\ pending' = pending + 1
    /\ lastRun' = OtherRun
    /\ UNCHANGED <<tokenParts, hash, view, items, posts, q, tag, filtered,
                   filteredRef, contactVars, menuOpen, innerWidth>>

\* Variant: the route wrapper has no key, so a page whose component stays
\* the same across the hash change keeps its state.
HandleHashChange_NoKey ==
    /\ pending > 0
    /\ pending' = pending - 1
    /\ hash' = ReadHash(locHash)
    /\ view' = RouteView(hash')
    /\ IF view'.kind = view.kind
       THEN UNCHANGED <<posts, q, tag, filtered, filteredRef, contactVars>>
       ELSE /\ form' = EmptyForm
            /\ submitted' = FALSE
            /\ topic' = DEFAULT_TOPIC
            /\ \E b \in BlogFor(view', items, posts) :
                /\ posts' = b.source
                /\ q' = b.q
                /\ tag' = b.tag
                /\ filtered' = b.filtered
                /\ filteredRef' = b.ref
    /\ lastRun' = OtherRun
    /\ scrollY' \in (IF hash' = hash THEN {scrollY} ELSE AfterRender(scrollY))
    /\ UNCHANGED <<tokenParts, locHash, items, menuOpen, innerWidth>>

\* onHash, and the render it causes.  setHash with the value already held
\* renders nothing; a new value changes the key of the route wrapper, so the
\* old page is unmounted and the element of RouteView is mounted afresh.
HandleHashChange ==
    /\ pending > 0
    /\ pending' = pending - 1
    /\ hash' = ReadHash(locHash)
    /\ IF hash' = hash
       THEN UNCHANGED <<view, posts, q, tag, filtered, filteredRef,
                        contactVars>>
       ELSE /\ view' = RouteView(hash')
            /\ form' = EmptyForm
            /\ submitted' = FALSE
            /\ topic' = DEFAULT_TOPIC
            /\ \E b \in BlogFor(view', items, posts) :
                /\ posts' = b.source
                /\ q' = b.q
                /\ tag' = b.tag
                /\ filtered' = b.filtered
                /\ filteredRef' = b.ref
    /\ lastRun' = OtherRun
    /\ scrollY' \in (IF hash' = hash THEN {scrollY} ELSE AfterRender(scrollY))
    /\ UNCHANGED <<tokenParts, locHash, items, menuOpen, innerWidth>>

\* onChange of the search box: setQ(e.target.value), then the render reruns
\* the filtered memo because q changed.
SetQuery(s) ==
    /\ view.kind = "Blog"
    /\ s # q
    /\ q' = s
    /\ \E o \in FilterSort(items, posts, s, tag, filteredRef) :
        /\ filtered' = o.result
        /\ filteredRef' = o.ref
        /\ posts' = o.source
    /\ lastRun' = OtherRun
    /\ UNCHANGED <<tokenParts, locHash, hash, pending, view, items, tag,
                   contactVars, shellVars>>

\* Variant: choosing a tag also empties the search box.
SetTag_ClearsQuery(t) ==
    /\ view.kind = "Blog"
    /\ t # tag
    /\ tag' = t
    /\ q' = <<>>
    /\ \E o \in FilterSort(items, posts, <<>>, t, filteredRef) :
        /\ filtered' = o.result
        /\ filteredRef' = o.ref
        /\ posts' = o.source
    /\ lastRun' = OtherRun
    /\ UNCHANGED <<tokenParts, locHash, hash, pending, view, items,
                   contactVars, shellVars>>

\* onChange of the tag select: setTag(e.target.value).
SetTag(t) ==
    /\ view.kind = "Blog"
    /\ t # tag
    /\ tag' = t
    /\ \E o \in FilterSort(items, posts, q, t, filteredRef) :
        /\ filtered' = o.result
        /\ filteredRef' = o.ref
        /\ posts' = o.source
    /\ lastRun' = OtherRun
    /\ UNCHANGED <<tokenParts, locHash, hash, pending, view, items, q,
                   contactVars, shellVars>>

\* Variant: an edit of a field takes the Sent pill away.
SetField_ClearsSent(k, v) ==
    /\ view.kind = "Contact"
    /\ v # form[k]
    /\ form' = Update(form, k, v)
    /\ submitted' = FALSE
    /\ lastRun' = OtherRun
    /\ UNCHANGED <<blogVars, topic, shellVars>>

\* onChange of a field of the contact form: update(k, e.target.value).
SetField(k, v) ==
    /\ view.kind = "Contact"
    /\ v # form[k]
    /\ form' = Update(form, k, v)
    /\ lastRun' = OtherRun
    /\ UNCHANGED <<blogVars, submitted, topic, shellVars>>

\* onChange of the topic select: the option t is chosen, and the message is
\* given its topic line.
SelectTopic(t) ==
    /\ view.kind = "Contact"
    /\ t # topic
    /\ topic' = t
    /\ form' = Update(form, "message", TopicMessage(form.message, t))
    /\ lastRun' = OtherRun
    /\ UNCHANGED <<blogVars, submitted, shellVars>>

\* A submit event reaches the form: onSubmit.
SubmitForm ==
    /\ view.kind = "Contact"
    /\ LET o == SubmitOutcome(form, submitted) IN
        /\ submitted' = o.submitted
        /\ lastRun' = SubmitRun(o.handoffs)
    /\ UNCHANGED <<blogVars, form, topic, shellVars>>

\* In the application the form is filled in with one value a field, and the
\* name can be deleted again.
AppFieldInputs ==
    [name |-> {<<>>, NAME_AL}, email |-> {EMAIL_OK}, phone |-> {PHONE_UK},
     message |-> {MESSAGE_TEN}]

EditField == \E k \in DOMAIN AppFieldInputs : \E v \in AppFieldInputs[k] : SetField(k, v)

ChooseTopic == \E t \in {DEFAULT_TOPIC, TOPIC_GENERAL} : SelectTopic(t)

ChangeQuery == \E s \in Queries : SetQuery(s)

ChangeTag == \E t \in {ALL} \cup TagSet(items, posts) : SetTag(t)

\* The address is edited, or a link from elsewhere is followed: the browser
\* goes to the top of the page when the new fragment is empty.
FollowLink ==
    \E t \in NavTokens :
        /\ Navigate(t)
        /\ scrollY' = (IF t = <<>> THEN 0 ELSE scrollY)

\* A link of the page body is clicked: the browser sets the fragment to its
\* href (onClick only scrolls).
ClickPageLink ==
    \E t \in PageLinks(view, items, posts, filtered) :
        /\ Navigate(t)
        /\ scrollY' = ScrollToTop

Next ==
    \/ FollowLink
    \/ ClickPageLink
    \/ HandleHashChange
    \/ ChangeQuery
    \/ ChangeTag
    \/ EditField
    \/ ChooseTopic
    \/ SubmitForm

Spec == Init /\ [][Next]_vars

-----------------------------------------------------------------------------
(* The router applied to any token                                         *)

RouterInit ==
    /\ tokenParts \in TokenShapes
    /\ hash = TokenString(tokenParts)
    /\ locHash = hash
    /\ pending = 0
    /\ view = Unrendered
    /\ items = BLOG_POSTS
    /\ posts = SourceOrder(items)
    /\ q = <<>>
    /\ tag = ALL
    /\ filtered = <<>>
    /\ filteredRef = NoRef
    /\ ContactMounted
    /\ lastRun = OtherRun
    /\ WindowOpened

\* App renders <RouteView hash={hash} />.
RenderRoute ==
    /\ view = Unrendered
    /\ view' = RouteView(hash)
    /\ UNCHANGED <<tokenParts, locHash, hash, pending, items, posts, q, tag,
                   filtered, filteredRef, contactVars, lastRun, shellVars>>

RouterNext == RenderRoute

SpecRouter == RouterInit /\ [][RouterNext]_vars

-----------------------------------------------------------------------------
(* The filter applied to any item list                                     *)

FilterInit ==
    /\ tokenParts = NoShape
    /\ locHash = TOKEN_BLOG
    /\ hash = TOKEN_BLOG
    /\ pending = 0
    /\ view = BlogView
    /\ items \in ItemLists
    /\ \E b \in BlogMounted(items, SourceOrder(items)) :
        /\ posts = b.source
        /\ q = b.q
        /\ tag = b.tag
        /\ filtered = b.filtered
        /\ filteredRef = b.ref
    /\ ContactMounted
    /\ lastRun = OtherRun
    /\ WindowOpened

\* The filter is also given selectors that are no tag of the list: one that
\* differs from a tag in case only, one that is a proper part of a tag.
TagInputs == {TAG_WHITENING_LOWER, TAG_WHIT}

ChangeTagAny == \E t \in TagInputs : SetTag(t)

FilterNext == ChangeQuery \/ ChangeTag \/ ChangeTagAny

SpecFilter == FilterInit /\ [][FilterNext]_vars


-----------------------------------------------------------------------------
(* The contact form given any input                                        *)

ContactInit ==
    /\ tokenParts = NoShape
    /\ locHash = TOKEN_CONTACT
    /\ hash = TOKEN_CONTACT
    /\ pending = 0
    /\ view = ContactView
    /\ items = BLOG_POSTS
    /\ posts = SourceOrder(items)
    /\ q = <<>>
    /\ tag = ALL
    /\ filtered = <<>>
    /\ filteredRef = NoRef
    /\ ContactMounted
    /\ lastRun = OtherRun
    /\ WindowOpened

\* What the fields are given: the empty string, values on both sides of
\* each limit, values with outer white space, addresses lacking one part.
FieldInputs ==
    [name |-> {<<>>, NAME_AL, NAME_ONE_PADDED},
     email |-> {<<>>, EMAIL_OK, EMAIL_PADDED, EMAIL_NO_DOT, EMAIL_NO_LOCAL,
                EMAIL_NO_HOST, EMAIL_NO_TLD, EMAIL_DOT_FIRST},
     phone |-> {<<>>, PHONE_UK},
     message |-> {<<>>, MESSAGE_TEN, MESSAGE_NINE, MESSAGE_EIGHT_PADDED}]

EditFieldAny == \E k \in DOMAIN FieldInputs : \E v \in FieldInputs[k] : SetField(k, v)

ChooseTopicAny == \E i \in 1..Len(TOPICS) : SelectTopic(TOPICS[i])

ContactNext == EditFieldAny \/ ChooseTopicAny \/ SubmitForm

SpecContact == ContactInit /\ [][ContactNext]_vars

-----------------------------------------------------------------------------
(* The site as its own links, the menu and the window drive it             *)

ShellInit ==
    \E h0 \in {NAV[i] : i \in 1..Len(NAV)} :
        /\ tokenParts = NoShape
        /\ hash = ReadHash(h0)
        /\ locHash = EnsureDefaultRoute(h0)
        /\ pending = 0
        /\ view = RouteView(hash)
        /\ items = BLOG_POSTS
        /\ \E b \in BlogFor(view, items, SourceOrder(items)) :
            /\ posts = b.source
            /\ q = b.q
            /\ tag = b.tag
            /\ filtered = b.filtered
            /\ filteredRef = b.ref
        /\ ContactMounted
        /\ lastRun = OtherRun
        /\ scrollY = 0
        /\ menuOpen = FALSE
        /\ innerWidth \in {WIDTH_PHONE, WIDTH_DESKTOP}

\* The link l is clicked: its onClick runs, and the browser sets the fragment
\* to its href, which queues a hashchange event when the fragment changes.
ClickLink(l) ==
    /\ IF l.href # locHash
       THEN /\ pending < MaxPending
            /\ locHash' = l.href
            /\ pending' = pending + 1
       ELSE UNCHANGED <<locHash, pending>>
    /\ scrollY' = (IF l.top THEN ScrollToTop ELSE scrollY)
    /\ menuOpen' = (IF l.closes THEN FALSE ELSE menuOpen)
    /\ lastRun' = OtherRun
    /\ UNCHANGED <<tokenParts, hash, view, items, posts, q, tag, filtered,
                   filteredRef, contactVars, innerWidth>>

ClickScreenLink ==
    \E l \in ScreenLinks(view, items, posts, filtered, menuOpen, innerWidth) :
        ClickLink(l)

\* The menu button of Navbar (shown below md): setOpen((v) => !v).
ToggleMenu ==
    /\ innerWidth < WIDTH_MD
    /\ menuOpen' = ~menuOpen
    /\ lastRun' = OtherRun
    /\ UNCHANGED <<blogVars, contactVars, scrollY, innerWidth>>

\* The window is resized to the width w: onResize of Navbar.
Resize(w) ==
    /\ w # innerWidth
    /\ innerWidth' = w
    /\ menuOpen' = OnResize(menuOpen, w)
    /\ lastRun' = OtherRun
    /\ UNCHANGED <<blogVars, contactVars, scrollY>>

\* The user scrolls the page to the offset y; no handler listens.
ScrollPage(y) ==
    /\ y # scrollY
    /\ scrollY' = y
    /\ UNCHANGED <<blogVars, contactVars, lastRun, menuOpen, innerWidth>>

ResizeWindow == \E w \in {WIDTH_PHONE, WIDTH_DESKTOP} : Resize(w)

ScrollWindow == \E y \in {0, 600} : ScrollPage(y)

ChangeQueryShell == \E s \in {<<>>, QUERY_BONDING} : SetQuery(s)

ChangeTagShell == \E t \in {ALL, POST_SMILE_DESIGN.tags[2]} : SetTag(t)

ShellNext ==
    \/ ClickScreenLink
    \/ HandleHashChange
    \/ ToggleMenu
    \/ ResizeWindow
    \/ ScrollWindow
    \/ ChangeQueryShell
    \/ ChangeTagShell
    \/ SubmitForm

SpecShell == ShellInit /\ [][ShellNext]_vars

-----------------------------------------------------------------------------
(* Properties of the router                                                *)

NonEmpty(segs) == SelectSeq(segs, LAMBDA s : s # <<>>)

\* The path segments of the token a shape spells, read off the shape: the
\* lead "#/" and no lead leave the segments as joined; a lone "#" followed by
\* an empty segment spells "#/", otherwise it sticks to the first segment.
ShapeSegments(shape) ==
    IF shape.lead # HASH_ONLY THEN NonEmpty(shape.segs)
    ELSE IF shape.segs = <<>> THEN <<HASH_ONLY>>
    ELSE IF shape.segs[1] = <<>> /\ Len(shape.segs) >= 2
         THEN NonEmpty(Tail(shape.segs))
    ELSE <<HASH_ONLY \o shape.segs[1]>> \o NonEmpty(Tail(shape.segs))

Rendered == view # Unrendered

ViewKinds == {"Home", "About", "Contact", "Blog", "BlogPost"}

\* C1: the router dispatches on the first path segment, first match wins:
\* "about" gives About, "contact" gives Contact, "blog" followed by a second
\* segment s gives BlogPost(s) whatever comes after s, "blog" alone gives the
\* blog list; "#/blog/smile-design-first-principles" gives that post.
C1_RouterDispatch ==
    Rendered =>
        LET segs == ShapeSegments(tokenParts)
            first == IF segs = <<>> THEN <<>> ELSE segs[1]
        IN  /\ first = PAGE_ABOUT => view = AboutView
            /\ first = PAGE_CONTACT => view = ContactView
            /\ first = PAGE_BLOG /\ Len(segs) >= 2 => view = BlogPostView(segs[2])
            /\ first = PAGE_BLOG /\ Len(segs) = 1 => view = BlogView
            /\ hash = TOKEN_POST_SMILE => view = BlogPostView(POST_SMILE_DESIGN.slug)

\* A token "#/blog/<slug>/<more>" has been routed to the post <slug>.
C1_Witness ==
    /\ Rendered
    /\ tokenParts.lead = LEAD_MARK
    /\ Len(tokenParts.segs) = 3
    /\ tokenParts.segs[1] = PAGE_BLOG
    /\ tokenParts.segs[2] = POST_SMILE_DESIGN.slug
    /\ tokenParts.segs[3] = SEG_X
    /\ view = BlogPostView(POST_SMILE_DESIGN.slug)

\* C2: the router is total: every token gives one of the five views, and a
\* token whose first segment is none of "about", "contact", "blog" (the
\* empty token, "#/", "#/unknown", "#/About" among them) gives Home.
C2_RouterTotal ==
    Rendered =>
        LET segs == ShapeSegments(tokenParts)
            first == IF segs = <<>> THEN <<>> ELSE segs[1]
        IN  /\ view.kind \in ViewKinds
            /\ view.kind = "BlogPost" <=> view.slug # NoSlug
            /\ first \notin {PAGE_ABOUT, PAGE_CONTACT, PAGE_BLOG} => view = HomeView
            /\ hash \in {<<>>, ROOT_HASH, TOKEN_UNKNOWN, TOKEN_UPPER_ABOUT}
                   => view = HomeView

\* The token "#/About/x" has fallen back to Home.
C2_Witness ==
    /\ Rendered
    /\ tokenParts.lead = LEAD_MARK
    /\ tokenParts.segs = <<SEG_UPPER_ABOUT, SEG_X>>
    /\ view = HomeView

\* C4: empty path segments do not count: a token "#/..." resolves as the
\* token with its empty segments left out does, so "#/blog/" gives the blog
\* list as "#/blog" does.
C4_EmptySegmentsDropped ==
    Rendered /\ tokenParts.lead = LEAD_MARK =>
        /\ view = RouteView(LEAD_MARK \o Join(NonEmpty(tokenParts.segs)))
        /\ hash = TOKEN_BLOG_SLASH => view = BlogView

\* "#/blog//x" has been routed to the post x.
C4_Witness ==
    /\ Rendered
    /\ tokenParts.lead = LEAD_MARK
    /\ tokenParts.segs = <<PAGE_BLOG, <<>>, SEG_X>>
    /\ view = BlogPostView(SEG_X)

-----------------------------------------------------------------------------
(* Properties of navigation                                                *)

\* C3: once every hashchange event has been handled, the page shown is the
\* one the router gives for the current fragment ("#/" when it is empty),
\* whatever was shown, typed or selected before.
C3_ViewFollowsToken ==
    pending = 0 => view = RouteView(IF locHash = <<>> THEN ROOT_HASH ELSE locHash)

\* The fragment was emptied after the page had loaded, and Home is shown.
C3_Witness ==
    /\ pending = 0
    /\ locHash = <<>>
    /\ hash = ROOT_HASH
    /\ view = HomeView


-----------------------------------------------------------------------------
(* Properties of the content filter                                        *)

BlogShown == view.kind = "Blog"

\* The date of the k-th result.
DateAt(k) == items[filtered[k]].date

\* C5: a post is listed iff (the trimmed, lower-cased query is empty or is
\* contained in the lower-cased title, excerpt or one of the lower-cased
\* tags) and (the selector is "all" or one of the tags of the post); the
\* body paragraphs play no part.
C5_FilterPredicate ==
    BlogShown =>
        LET query == ToLowerCase(Trim(q))
        IN  \A id \in 1..Len(items) :
                LET p == items[id]
                    textHit ==
                        \/ query = <<>>
                        \/ Includes(ToLowerCase(p.title), query)
                        \/ Includes(ToLowerCase(p.excerpt), query)
                        \/ \E k \in 1..Len(p.tags) :
                              Includes(ToLowerCase(p.tags[k]), query)
                    tagHit == tag = ALL \/ \E k \in 1..Len(p.tags) : p.tags[k] = tag
                IN  (id \in Elements(filtered)) <=> (textHit /\ tagHit)

\* "restraint" was searched in a list holding the post whose body alone
\* contains it and a post whose excerpt matches "bonding" in other case;
\* nothing is listed.
C5_Witness ==
    /\ BlogShown
    /\ q = QUERY_RESTRAINT
    /\ tag = ALL
    /\ POOL_ALIGN \in Elements(items)
    /\ POOL_PLAN \in Elements(items)
    /\ filtered = <<>>

\* C6: the list is ordered by date, latest first: no result has a date
\* smaller than the date of the result after it.
C6_DateDescending ==
    BlogShown =>
        \A k \in 1..(Len(filtered) - 1) : ~StringLess(DateAt(k), DateAt(k + 1))

\* Posts stored oldest first are listed under a query all of them match.
C6_Witness ==
    /\ BlogShown
    /\ items = <<POOL_ALIGN, POOL_BONDING_CARE>>
    /\ q = QUERY_BONDING_RAW
    /\ filtered = <<2, 1>>

\* C7: two listed posts of the same date keep the order they have in the
\* item list.
C7_StableOnTies ==
    BlogShown =>
        \A i, j \in 1..Len(filtered) :
            i < j /\ DateAt(i) = DateAt(j) => filtered[i] < filtered[j]

\* C8: the filter leaves BLOG_POSTS alone: the array keeps its elements and
\* their order, the post objects keep their fields, and a recomputation
\* hands back an array object that is neither BLOG_POSTS nor the array held
\* before.
C8_SourceUntouched ==
    [][/\ posts = SourceOrder(BLOG_POSTS) /\ posts' = posts
       /\ items = BLOG_POSTS /\ items' = items
       /\ BlogShown' => filteredRef' \notin {NoRef, PostsRef}
       /\ BlogShown /\ hash' = hash /\ (q' # q \/ tag' # tag)
              => filteredRef' # filteredRef]_vars

\* A query and a tag that leave one post are set while another page has
\* been asked for.
C8_Witness ==
    /\ BlogShown
    /\ items = BLOG_POSTS
    /\ q = QUERY_WHIT
    /\ tag = POST_CONSERVATIVE_MAKEOVER.tags[3]
    /\ Len(filtered) = 1
    /\ pending > 0

\* C9: with the empty query and the selector "all" every post is listed
\* exactly once, latest first.
C9_NoFilterListsAll ==
    BlogShown /\ q = <<>> /\ tag = ALL =>
        /\ Len(filtered) = Len(items)
        /\ Elements(filtered) = 1..Len(items)
        /\ \A k \in 1..(Len(filtered) - 1) : ~StringLess(DateAt(k), DateAt(k + 1))

\* After a search the query was cleared again on a list stored oldest first.
C9_Witness ==
    /\ BlogShown
    /\ q = <<>>
    /\ tag = ALL
    /\ items = <<POOL_ALIGN, POOL_PLAN>>
    /\ filtered = <<2, 1>>
    /\ filteredRef = 3

\* C10: on the shipped list the query "bonding" with the selector "all"
\* lists the posts composite-bonding-aftercare and
\* alignment-whitening-bonding-pathway and no other.
C10_BondingQuery ==
    BlogShown /\ items = BLOG_POSTS /\ q = QUERY_BONDING /\ tag = ALL =>
        /\ Len(filtered) = 2
        /\ {items[id].slug : id \in Elements(filtered)} =
               {POST_BONDING_AFTERCARE.slug, POST_CONSERVATIVE_MAKEOVER.slug}
        /\ {items[id].title : id \in Elements(filtered)} =
               {POST_BONDING_AFTERCARE.title, POST_CONSERVATIVE_MAKEOVER.title}

\* "bonding" has been typed on the blog page.
C10_Witness ==
    /\ BlogShown
    /\ items = BLOG_POSTS
    /\ q = QUERY_BONDING
    /\ tag = ALL
    /\ Len(filtered) = 2

\* The tags of the post with id.
TagsOf(id) == {items[id].tags[k] : k \in 1..Len(items[id].tags)}

\* C11: with the empty query and a selector other than "all" exactly the
\* posts having a tag equal to the selector are listed; a selector that is a
\* tag in other case, or a part of a tag, lists nothing; on the shipped list
\* "Whitening" lists the post alignment-whitening-bonding-pathway alone.
C11_TagExactMatch ==
    BlogShown /\ q = <<>> /\ tag # ALL =>
        /\ Elements(filtered) = {id \in 1..Len(items) : tag \in TagsOf(id)}
        /\ tag \in {TAG_WHITENING_LOWER, TAG_WHIT} => filtered = <<>>
        /\ items = BLOG_POSTS /\ tag = POST_CONSERVATIVE_MAKEOVER.tags[2]
               => {items[id].slug : id \in Elements(filtered)} =
                      {POST_CONSERVATIVE_MAKEOVER.slug}

\* "whitening" was selected on a list holding a post tagged "Whitening".
C11_Witness ==
    /\ BlogShown
    /\ q = <<>>
    /\ tag = TAG_WHITENING_LOWER
    /\ POOL_PLAN \in Elements(items)
    /\ filtered = <<>>

\* C12: filtering a result again with the empty query and "all" gives the
\* posts of that result, no other and no fewer, latest first.
C12_RefilterKeepsResult ==
    BlogShown =>
        \A s \in ArraySort(items, ArrayFilter(items, filtered, <<>>, ALL)) :
            /\ Len(s) = Len(filtered)
            /\ Elements(s) = Elements(filtered)
            /\ \A k \in 1..(Len(s) - 1) :
                   ~StringLess(items[s[k]].date, items[s[k + 1]].date)

\* A query has left one post of two.
C12_Witness ==
    /\ BlogShown
    /\ Len(items) = 2
    /\ q = QUERY_WHIT
    /\ Len(filtered) = 1

\* Queries that are the same up to letter case and outer white space.
SameQuery == {{QUERY_BONDING, QUERY_BONDING_RAW}, {<<>>, QUERY_BLANK}}

\* C13: queries that differ in letter case or outer white space only give
\* the same list under every selector; a query of white space gives what the
\* empty query gives.
C13_QueryNormalized ==
    BlogShown =>
        \A pair \in SameQuery : \A s \in pair :
            q \in pair =>
                filtered \in {o.result : o \in FilterSort(items, posts, s, tag, NoRef)}

\* "  BONDING " is in the search box and a tag is selected; the list holds
\* a post whose selected tag and title match.
C13_Witness ==
    /\ BlogShown
    /\ q = QUERY_BONDING_RAW
    /\ tag # ALL
    /\ Len(filtered) = 1
    /\ Len(items) = 2

\* The posts of the list that pass the filter for the query and selector.
Matching ==
    {id \in Elements(posts) :
        HitQ(items[id], NormalizeQuery(q)) /\ HitT(items[id], tag)}

\* C14: an empty result is an ordinary state of Blog: the query
\* "zzz-no-match" under "all" gives the empty list, and the note "No posts
\* match your search." is on the screen exactly when the list is empty, that
\* is when no post passes the filter.
C14_NoMatchNote ==
    BlogShown =>
        /\ NoMatchShown(filtered) <=> filtered = <<>>
        /\ NoMatchShown(filtered) <=> Matching = {}
        /\ q = QUERY_NO_MATCH /\ tag = ALL =>
               filtered = <<>> /\ NoMatchShown(filtered)

\* "zzz-no-match" was typed over a list of two posts.
C14_Witness ==
    /\ BlogShown
    /\ q = QUERY_NO_MATCH
    /\ tag = ALL
    /\ Len(items) = 2
    /\ filtered = <<>>
    /\ NoMatchShown(filtered)

\* Every tag of every post of the table.
AllTags == UNION {TagsOf(id) : id \in 1..Len(items)}

\* C15: the options of the tag select are "all" first, then every tag some
\* post has, each once and no other, in ascending alphabetical order; for
\* the shipped posts that is also the order of the code units.
C15_TagOptions ==
    BlogShown =>
        LET t == Tags(items, posts) IN
        /\ t[1] = ALL
        /\ {t[k] : k \in 2..Len(t)} = AllTags
        /\ Len(t) = 1 + Cardinality(AllTags)
        /\ \A k \in 2..(Len(t) - 1) :
               ~StringLess(ToLowerCase(t[k + 1]), ToLowerCase(t[k]))
        /\ items = BLOG_POSTS =>
               \A k \in 2..(Len(t) - 1) : StringLess(t[k], t[k + 1])

\* Two posts with the same two tags, stored in descending order.
C15_Witness ==
    /\ BlogShown
    /\ items = <<POOL_ALIGN, POOL_ALIGN>>
    /\ tag = POOL_ALIGN.tags[1]
    /\ Tags(items, posts) = <<ALL, POOL_ALIGN.tags[2], POOL_ALIGN.tags[1]>>

\* The slugs of the table.
Slugs == {items[id].slug : id \in 1..Len(items)}

\* C16: the post of a BlogPost page is looked up by equality with the slug:
\* a slug of the table gives its post (the slug of the first post gives the
\* first post), any other string gives not-found, such as "does-not-exist",
\* a slug in other case, or the beginning of a slug.
C16_FindPostExact ==
    Rendered /\ view.kind = "BlogPost" =>
        LET r == FindPost(items, posts, view.slug) IN
        /\ \A id \in 1..Len(items) : items[id].slug = view.slug => r = id
        /\ view.slug \notin Slugs => r = NotFound
        /\ view.slug = items[1].slug => r = 1
        /\ view.slug \in {SEG_SLUG_MISSING, SEG_SLUG_CASE, SEG_SLUG_PREFIX}
               => r = NotFound /\ PostState(items, posts, view.slug) = "PostNotFound"

\* The page of a slug that differs from the first slug in case only.
C16_Witness ==
    /\ Rendered
    /\ view = BlogPostView(SEG_SLUG_CASE)
    /\ ToLowerCase(SEG_SLUG_CASE) = items[1].slug
    /\ FindPost(items, posts, view.slug) = NotFound

\* A post page whose slug is the slug of no post is on the screen.
PostMissing ==
    view.kind = "BlogPost" /\ view.slug \notin Slugs

\* C17: a token "#/blog/<id>" with an unknown id gives the BlogPost page,
\* not Home, in its state "Post not found"; the links of that page are the
\* one link to "#/blog"; following it queues the hash change, and the hash
\* change to "#/blog" puts the blog list on the screen.
C17_NotFoundBackLink ==
    /\ [](hash = TOKEN_POST_MISSING => PostMissing)
    /\ [](PostMissing =>
            /\ PostState(items, posts, view.slug) = "PostNotFound"
            /\ PageLinks(view, items, posts, filtered) = {TOKEN_BLOG})
    /\ [][PostMissing /\ pending = 0 /\ locHash' # locHash
             /\ locHash' \in PageLinks(view, items, posts, filtered)
          => locHash' = TOKEN_BLOG /\ pending' = 1 /\ view' = view]_vars
    /\ [][PostMissing /\ locHash = TOKEN_BLOG /\ pending' < pending
          => view' = BlogView /\ hash' = TOKEN_BLOG]_vars

\* The not-found card is shown and its link has just been followed.
C17_Witness ==
    /\ hash = TOKEN_POST_MISSING
    /\ PostMissing
    /\ locHash = TOKEN_BLOG
    /\ pending = 1

-----------------------------------------------------------------------------
(* Properties of the contact form                                          *)

ContactShown == view.kind = "Contact"

\* A string of the shape text@text.text: an "@" after some text, a "." later
\* with text between the two, and text after the ".".
TextAtTextDotText(e) ==
    \E a \in 1..Len(e) : \E dot \in 1..Len(e) :
        /\ e[a] = "@" /\ e[dot] = "."
        /\ 1 < a /\ a + 1 < dot /\ dot < Len(e)

\* C18: while the contact form is shown, the submit button is enabled, and
\* isValid true, exactly when the trimmed name has two characters or more,
\* the trimmed email has the shape text@text.text and the trimmed message
\* has ten characters or more; a step that leaves name, email and message as
\* they are (a change of the phone or of the chosen topic) leaves it as it is.
C18_SubmitGate ==
    /\ [](ContactShown =>
            /\ SubmitEnabled(form) <=> IsValid(form)
            /\ SubmitEnabled(form) <=>
                   /\ Len(Trim(form.name)) >= 2
                   /\ TextAtTextDotText(Trim(form.email))
                   /\ Len(Trim(form.message)) >= 10)
    /\ [][ContactShown /\ view' = view
             /\ form'.name = form.name
             /\ form'.email = form.email
             /\ form'.message = form.message
          => SubmitEnabled(form') = SubmitEnabled(form)]_vars

\* A valid form with padded email, no phone and no topic chosen.
C18_Witness ==
    /\ ContactShown
    /\ SubmitEnabled(form)
    /\ form.email = EMAIL_PADDED
    /\ form.phone = <<>>
    /\ topic = DEFAULT_TOPIC
    /\ ~Includes(form.message, TOPIC_MARK)

\* C19: a submit event on an invalid form changes nothing: nothing is
\* handed to the host, submitted and the Sent pill stay as they were, the
\* fields and the page stay as they were.
C19_InvalidSubmitNoOp ==
    [][ContactShown /\ ~IsValid(form) /\ lastRun'.event = "submit"
       => /\ lastRun'.handoffs = <<>>
          /\ submitted' = submitted
          /\ SentShown(submitted') = SentShown(submitted)
          /\ form' = form
          /\ topic' = topic
          /\ blogVars' = blogVars]_vars

\* onSubmit has run on a form that is filled in but for the email.
C19_Witness ==
    /\ ContactShown
    /\ lastRun = SubmitRun(<<>>)
    /\ ~IsValid(form)
    /\ form.name = NAME_AL
    /\ form.message = MESSAGE_TEN
    /\ form.email = EMAIL_NO_TLD
    /\ ~submitted

\* The draft up to its body: scheme, practice address, subject.
DraftHead ==
    <<"m","a","i","l","t","o",":","e","n","q","u","i","r","i","e","s","@","d","r","c","h","a",
    "r","l","e","s","b","r","a","n","d","o","n",".","c","o","m","?","s","u","b","j","e","c",
    "t","=","P","r","i","v","a","t","e","%","2","0","C","o","n","s","u","l","t","a","t","i",
    "o","n","%","2","0","R","e","q","u","e","s","t","&","b","o","d","y","=">>

\* The places of enc where a character of the decoded text starts: every
\* place but the two hexadecimal digits behind a "%".
DecodeStarts(enc) ==
    SelectSeq([i \in 1..Len(enc) |-> i],
              LAMBDA i : /\ (i > 1 => enc[i - 1] # "%")
                         /\ (i > 2 => enc[i - 2] # "%"))

HexValue(c) == (CHOOSE i \in 1..Len(HexDigits) : HexDigits[i] = c) - 1

\* The character with the code n (line feed and printable ASCII).
UnitOf(n) == IF n = 10 THEN "\n" ELSE ASCII[n - 31]

\* The text a percent-encoded ASCII string stands for.
PercentDecode(enc) ==
    LET st == DecodeStarts(enc) IN
    [k \in 1..Len(st) |->
        IF enc[st[k]] = "%"
        THEN UnitOf(16 * HexValue(enc[st[k] + 1]) + HexValue(enc[st[k] + 2]))
        ELSE enc[st[k]]]

\* The text of the draft for the form f: the four fields as they are in
\* the form, under their labels.
DraftText(f) ==
    <<"N", "a", "m", "e", ":", " ">> \o f.name
        \o <<"\n", "E", "m", "a", "i", "l", ":", " ">> \o f.email
        \o <<"\n", "P", "h", "o", "n", "e", ":", " ">> \o f.phone
        \o <<"\n", "\n", "M", "e", "s", "s", "a", "g", "e", ":", "\n">>
        \o f.message

\* The characters that would end or split the body of a mailto URL.
UrlBreakers == {" ", "\n", "&", "?", "#", "="}

\* C20: a submit event on a valid form sets submitted, so that the Sent pill
\* is on the screen after the same step, and hands one value to the host:
\* the mailto URL of the practice address with the fixed subject and, as
\* its body, the encoded text of the name, email, phone and message the
\* form holds; the fields stay as they were.
C20_ValidSubmitDraft ==
    [][ContactShown /\ IsValid(form) /\ lastRun'.event = "submit"
       => /\ submitted' = TRUE
          /\ SentShown(submitted')
          /\ form' = form
          /\ Len(lastRun'.handoffs) = 1
          /\ LET href == lastRun'.handoffs[1]
                 body == SubSeq(href, Len(DraftHead) + 1, Len(href))
             IN  /\ SubSeq(href, 1, Len(DraftHead)) = DraftHead
                 /\ \A k \in 1..Len(body) : body[k] \notin UrlBreakers
                 /\ PercentDecode(body) = DraftText(form)]_vars

\* A form with a phone and a chosen topic was submitted.
C20_Witness ==
    /\ ContactShown
    /\ submitted
    /\ SentShown(submitted)
    /\ lastRun.event = "submit"
    /\ Len(lastRun.handoffs) = 1
    /\ form.phone = PHONE_UK
    /\ topic = TOPIC_GENERAL
    /\ Includes(form.message, TOPIC_MARK)

-----------------------------------------------------------------------------
(* Properties of the lifetimes of the pages                                *)

\* C21: the filter state ends with the Blog page: the page is opened on
\* Blog, or a hash change puts Blog on the screen (from another page or from
\* another token of Blog), with the query "" and the tag "all", whatever
\* they were before.
C21_FilterStateReset ==
    /\ (BlogShown => q = <<>> /\ tag = ALL)
    /\ [][hash' # hash /\ view'.kind = "Blog"
          => q' = <<>> /\ tag' = ALL
                 /\ Elements(filtered') = Elements(posts')]_vars

\* Blog is shown under "#/blog/" with nothing typed or selected, and the way
\* back to "#/blog" is taken.
C21_Witness ==
    /\ BlogShown
    /\ hash = TOKEN_BLOG_SLASH
    /\ locHash = TOKEN_BLOG
    /\ pending = 1
    /\ q = <<>>
    /\ tag = ALL

\* The router state a Blog handler has no hand in.
routeVars == <<tokenParts, locHash, hash, pending, view>>

\* C22: a step that changes the query is the handler of the search box and
\* changes neither the tag nor the page, the token, the form or the window;
\* a step that changes the tag likewise leaves the query and the rest; and
\* while the same Blog page is mounted, a step of any other event (a click,
\* the menu, a resize, a scroll, a hash change that renders nothing) leaves
\* both as they are.
C22_OwnedState ==
    [][/\ (hash' = hash /\ q' # q =>
              /\ tag' = tag
              /\ routeVars' = routeVars
              /\ contactVars' = contactVars
              /\ shellVars' = shellVars)
       /\ (hash' = hash /\ tag' # tag =>
              /\ q' = q
              /\ routeVars' = routeVars
              /\ contactVars' = contactVars
              /\ shellVars' = shellVars)
       /\ (BlogShown /\ hash' = hash
              /\ (shellVars' # shellVars \/ routeVars' # routeVars)
           => q' = q /\ tag' = tag /\ filtered' = filtered)]_vars

\* Blog with a query and a tag set, scrolled, the mobile menu open, and a
\* link clicked whose hash change is not handled yet.
C22_Witness ==
    /\ BlogShown
    /\ q = QUERY_BONDING
    /\ tag # ALL
    /\ scrollY > 0
    /\ menuOpen
    /\ pending = 1

\* C23 (refuted): a click on a link that changes the token also brings the
\* window to the top.  The links of Navbar have no scrollToTop.
C23_ScrollResetOnNavigation ==
    [][locHash' # locHash => scrollY' = 0]_vars

\* The links on the screen.
LinksShown ==
    ScreenLinks(view, items, posts, filtered, menuOpen, innerWidth)

\* C24: the links the site renders lead where they are meant to: the four
\* hashes of NAV give Home, About, Blog and Contact; the card link of every
\* post gives the BlogPost page of its slug, whose lookup finds that post;
\* so no rendered link gives Home but "#/", and no post page reached shows
\* "Post not found".
C24_LinksLand ==
    /\ RouteView(NAV[1]) = HomeView
    /\ RouteView(NAV[2]) = AboutView
    /\ RouteView(NAV[3]) = BlogView
    /\ RouteView(NAV[4]) = ContactView
    /\ \A id \in 1..Len(items) :
           LET v == RouteView(PostHref(items[id])) IN
           /\ v = BlogPostView(items[id].slug)
           /\ FindPost(items, posts, v.slug) = id
    /\ \A l \in LinksShown :
           RouteView(l.href) = HomeView => l.href = ROOT_HASH
    /\ view = HomeView => hash = ROOT_HASH
    /\ view.kind = "BlogPost" =>
           /\ PostState(items, posts, view.slug) = "Article"
           /\ hash = PostHref(items[FindPost(items, posts, view.slug)])

\* The card of the third post was clicked and its page is shown.
C24_Witness ==
    /\ hash = PostHref(items[3])
    /\ view = BlogPostView(items[3].slug)
    /\ PostState(items, posts, view.slug) = "Article"
    /\ pending = 0

\* C25 (refuted): after a topic is chosen the message holds "Topic: " and
\* the chosen topic.  A topic line written into an empty message is trimmed
\* of its two line feeds, and the next choice no longer finds it.
C25_TopicLineCurrent ==
    [][ContactShown /\ topic' # topic
       => Includes(form'.message, TOPIC_MARK \o <<" ">> \o topic')]_vars

\* C26: the Sent pill is absent when the page is opened; it appears only in
\* a run of onSubmit on a valid form of the Contact page; while the same
\* page stays mounted it remains, whatever is edited; a change of the hash
\* state, which alone takes it away, also empties the fields.
C26_SentLifetime ==
    /\ ~SentShown(submitted)
    /\ [](SentShown(submitted) => ContactShown)
    /\ [][~SentShown(submitted) /\ SentShown(submitted')
          => /\ ContactShown /\ hash' = hash
             /\ IsValid(form) /\ form' = form
             /\ lastRun'.event = "submit"]_vars
    /\ [][SentShown(submitted) /\ hash' = hash => SentShown(submitted')]_vars
    /\ [][hash' # hash
          => /\ ~SentShown(submitted')
             /\ form' = EmptyForm
             /\ topic' = DEFAULT_TOPIC]_vars

\* The pill is shown over a form whose name was deleted after the submit.
C26_Witness ==
    /\ ContactShown
    /\ SentShown(submitted)
    /\ form.name = <<>>
    /\ form.email = EMAIL_OK
    /\ ~IsValid(form)

\* C27: on Blog the selected tag is always "all" or a tag of the set the
\* options of the tag select are made from, hence a tag of some post, so under the empty query the list is never empty; the list is
\* empty only under a query that is not empty.
C27_TagIsAnOption ==
    BlogShown =>
        /\ tag \in {ALL} \cup TagSet(items, posts)
        /\ tag = ALL \/ \E id \in 1..Len(items) : tag \in TagsOf(id)
        /\ q = <<>> => filtered # <<>>
        /\ filtered = <<>> => NormalizeQuery(q) # <<>>

\* A tag is selected under the blank query, and a tag with a query no post
\* of that tag matches.
C27_Witness ==
    /\ BlogShown
    /\ tag # ALL
    /\ q = QUERY_NO_MATCH
    /\ filtered = <<>>
====
